---- MODULE Spec2Model ----
(***************************************************************************)
(* Winning Wordle (Wordle notebook): the feedback encoder reply_for, the   *)
(* partition engine, the win verifier can_win / can_win_bin and the        *)
(* candidate generator disjoint_words, as state machines over small sets   *)
(* of words.                                                               *)
(*                                                                         *)
(* A Word is a sequence of 5 one-letter strings, a Reply a sequence of 5   *)
(* symbols of "G", "Y", ".".  Python's 0-based positions 0..4 are the      *)
(* positions 1..5 here.                                                    *)
(***************************************************************************)
EXTENDS Integers, Sequences, FiniteSets, TLC

VARIABLES
    pc,        \* position of the running call
    guess,     \* reply_for: argument guess
    target,    \* reply_for: argument target
    reply,     \* reply_for: the returned reply (<<>> before the return)
    guesses,   \* partition / can_win: argument guesses
    targets,   \* partition / can_win: argument targets
    idx,       \* partition: position of the for loop in targets
    part,      \* partition: the defaultdict, as the ordered list of its items
    verdict,   \* can_win: the returned boolean (FALSE before the return)
    hidden,    \* play: the hidden target
    made,      \* play: the guesses made so far, in order
    n,         \* disjoint_words: argument n of the outermost call;
               \* top / bot: argument n
    pool,      \* disjoint_words: argument words
    letters,   \* disjoint_words: argument letters of the outermost call
    stack,     \* disjoint_words: the call stack, innermost frame last; a frame
               \* holds the call's n and letters and the position i of its for loop
    ret,       \* disjoint_words: the value the last finished call returned
               \* (none: it is None; tuple: the tuple otherwise), with that call's
               \* n and letters
    printed,   \* report: what the call printed (<<>> before the return)
    items,     \* top / bot: argument items
    keyOf,     \* top / bot: argument key, as the map from item to key value
    ranked,    \* top / bot: the returned dict, as the ordered list of its items
    words,     \* session: the global list words
    cache,     \* session: the memo cache of reply_for
    sizes,     \* session: the memo cache of bin_sizes
    calls,     \* session: number of operations run so far
    out,       \* session: the last operation and the value it returned
    seen,      \* session: the value each operation returned the first time
    given,     \* life / next_generation: the world the caller passed
    gens,      \* life: argument n
    gen,       \* life: the loop variable g
    world,     \* life: the local variable world
    yielded,   \* life: the worlds yielded so far, in order
    nextWorld, \* next_generation: the returned set ({} before the return)
    tally,     \* next_generation: the Counter counts, as the map from cell to count
    kataWorld  \* next_generation without conditional: the returned set

vars == <<pc, guess, target, reply, guesses, targets, idx, part, verdict,
          hidden, made, n, pool, letters, stack, ret,
          printed, items, keyOf, ranked, words, cache, sizes, calls, out, seen,
          given, gens, gen, world, yielded, nextWorld, tally, kataWorld>>

replyVars == <<guess, target, reply>>
winVars   == <<guesses, targets, idx, part, verdict>>
playVars  == <<hidden, made>>
reportVars == <<printed>>
topVars   == <<items, keyOf, ranked>>
sessVars  == <<words, cache, sizes, calls, out, seen>>
lifeVars  == <<given, gens, gen, world, yielded, nextWorld, tally, kataWorld>>
otherVars == <<reportVars, topVars, sessVars, lifeVars>>
djVars    == <<n, pool, letters, stack, ret>>

(***************************************************************************)
(* Bounds of the model.                                                    *)
(***************************************************************************)
NLetters   == 3   \* reply_for is run on every pair of words over this many letters
NWords     == 4   \* partition / can_win: words of Lexicon that guesses and targets are drawn from
MaxGuesses == 2   \* partition / can_win: longest guess sequence
MaxTargets == 3   \* partition / can_win: longest target list
NPool      == 6   \* disjoint_words: words of PoolLexicon the pool is drawn from
MaxPool    == 4   \* disjoint_words: longest pool
MaxN       == 3   \* disjoint_words: largest n asked for
MaxExtra   == 3   \* play: guesses a play may make after the fixed ones
MaxLen     == 6   \* reply_for on words of any length: the longest words
MaxItems   == 3   \* top / bot: words of few the items are drawn from, and largest n
MaxKey     == 2   \* top / bot: key values are 0..MaxKey
MaxCalls   == 2   \* session: operations run after the word list is loaded

(***************************************************************************)
(* Program constants.                                                      *)
(***************************************************************************)
WordLen == 5      \* range(5)
Green   == "G"
Yellow  == "Y"
Miss    == "."

Alphabet == <<"A", "B", "C", "D", "E", "F">>

\* The words over the first NLetters letters of Alphabet.
SmallLetters == {Alphabet[k] : k \in 1..NLetters}
SmallWords   == [1..WordLen -> SmallLetters]

Range(s) == {s[k] : k \in DOMAIN s}

(***************************************************************************)
(* reply_for(guess, target)                                                *)
(***************************************************************************)
\* reply = [Green if guess[i] == target[i] else Miss for i in range(5)]
FirstPassAnywhere(g, t) ==
    [i \in 1..WordLen |-> IF g[i] \in Range(t) THEN Green ELSE Miss]

FirstPassWholeWord(g, t) ==
    [i \in 1..Len(g) |-> IF g[i] = t[i] THEN Green ELSE Miss]

FirstPass(g, t) ==
    [i \in 1..WordLen |-> IF g[i] = t[i] THEN Green ELSE Miss]

\* counts = Counter(target[i] for i in range(5) if guess[i] != target[i]);
\* a Counter reads 0 for a key it does not hold.
CounterOfWholeTarget(g, t) ==
    [c \in Range(g) \cup Range(t) |->
        Cardinality({i \in 1..WordLen : t[i] = c})]

CounterOfUnmatched(g, t) ==
    [c \in Range(g) \cup Range(t) |->
        Cardinality({i \in 1..WordLen : g[i] # t[i] /\ t[i] = c})]

\* for i in range(5): if reply[i] == Miss and counts[guess[i]] > 0:
\*     counts[guess[i]] -= 1; reply[i] = Yellow
RECURSIVE SecondPassNoDecrement(_, _, _, _)
SecondPassNoDecrement(g, r, counts, i) ==
    IF i > WordLen THEN r
    ELSE IF r[i] = Miss /\ counts[g[i]] > 0
         THEN SecondPassNoDecrement(g, [r EXCEPT ![i] = Yellow], counts, i + 1)
         ELSE SecondPassNoDecrement(g, r, counts, i + 1)

RECURSIVE SecondPass(_, _, _, _)
SecondPass(g, r, counts, i) ==
    IF i > WordLen THEN r
    ELSE IF r[i] = Miss /\ counts[g[i]] > 0
         THEN SecondPass(g, [r EXCEPT ![i] = Yellow],
                         [counts EXCEPT ![g[i]] = @ - 1], i + 1)
         ELSE SecondPass(g, r, counts, i + 1)

reply_for(g, t) == SecondPass(g, FirstPass(g, t), CounterOfUnmatched(g, t), 1)

(***************************************************************************)
(* Idle values of the variables a specification does not use.              *)
(***************************************************************************)
NoWord == <<>>

ReplyIdle == guess = NoWord /\ target = NoWord /\ reply = <<>>
WinIdle   == guesses = <<>> /\ targets = <<>> /\ idx = 0 /\ part = <<>>
             /\ verdict = FALSE
PlayIdle  == hidden = NoWord /\ made = <<>>
DjIdle    == n = 0 /\ pool = <<>> /\ letters = {} /\ stack = <<>>
             /\ ret = [none |-> TRUE, tuple |-> <<>>, n |-> 0, letters |-> {}]
ReportIdle == printed = <<>>
TopIdle   == items = <<>> /\ keyOf = <<>> /\ ranked = <<>>
SessIdle  == words = <<>> /\ cache = <<>> /\ sizes = <<>> /\ calls = 0
             /\ out = <<>> /\ seen = <<>>
LifeIdle  == /\ given = {} /\ gens = 0 /\ gen = 0 /\ world = {} /\ yielded = <<>>
             /\ nextWorld = {} /\ tally = <<>> /\ kataWorld = {}
OtherIdle == ReportIdle /\ TopIdle /\ SessIdle /\ LifeIdle

(***************************************************************************)
(* SpecReply: one call reply_for(guess, target) on any two words over      *)
(* SmallLetters.                                                           *)
(***************************************************************************)
InitReply ==
    /\ pc = "reply_for"
    /\ guess \in SmallWords
    /\ target \in SmallWords
    /\ reply = <<>>
    /\ WinIdle /\ PlayIdle /\ DjIdle /\ OtherIdle

\* guess[i] and target[i] are read for every i in range(5): the call goes
\* through when both words have these positions.
ReplyFor ==
    /\ pc = "reply_for"
    /\ Len(guess) >= WordLen /\ Len(target) >= WordLen
    /\ reply' = reply_for(guess, target)
    /\ pc' = "replied"
    /\ UNCHANGED <<guess, target, winVars, playVars, djVars, otherVars>>

NextReply == ReplyFor

SpecReply == InitReply /\ [][NextReply]_vars

\* Positions of the guess that the returned reply does not mark Hit.
NonHit == {i \in 1..WordLen : reply[i] # Green}

\* C1: position i of reply_for(guess, target) is Hit exactly when
\* guess[i] == target[i], so the number of Hits is the number of agreeing
\* positions.
C1_HitIffSameLetter ==
    pc = "replied" =>
        /\ \A i \in 1..WordLen : (reply[i] = Green) <=> (guess[i] = target[i])
        /\ Cardinality({i \in 1..WordLen : reply[i] = Green})
             = Cardinality({i \in 1..WordLen : guess[i] = target[i]})

C1_Witness ==
    /\ pc = "replied"
    /\ Cardinality({i \in 1..WordLen : reply[i] = Green}) = 2
    /\ \E i \in 1..WordLen : guess[i] # target[i] /\ guess[i] \in Range(target)

\* C2: a non-Hit position i is Partial exactly when fewer non-Hit positions
\* j < i carry the letter guess[i] than there are non-Hit target positions
\* holding that letter; otherwise it is Miss.
C2_PartialIffUnmatchedLeft ==
    pc = "replied" =>
        \A i \in NonHit :
            LET earlier   == {j \in NonHit : j < i /\ guess[j] = guess[i]}
                unmatched == {k \in NonHit : target[k] = guess[i]}
            IN  /\ reply[i] \in {Yellow, Miss}
                /\ (reply[i] = Yellow)
                     <=> (Cardinality(earlier) < Cardinality(unmatched))

\* A letter occurs more often among the non-Hit guess positions than among the
\* unmatched target positions: the earlier occurrence is Partial, a later one Miss.
C2_Witness ==
    /\ pc = "replied"
    /\ \E i, j \in NonHit :
          /\ i < j
          /\ guess[i] = guess[j]
          /\ reply[i] = Yellow
          /\ reply[j] = Miss
    /\ \E k \in 1..WordLen : reply[k] = Green

\* C3: for every letter c, the positions of the guess holding c that are
\* marked Hit or Partial are never more than the occurrences of c in target.
C3_LetterCountConservation ==
    pc = "replied" =>
        \A c \in Range(guess) \cup Range(target) :
            Cardinality({i \in 1..WordLen :
                            guess[i] = c /\ reply[i] \in {Green, Yellow}})
              <= Cardinality({k \in 1..WordLen : target[k] = c})

\* The guess holds a letter more often than the target does, and every
\* occurrence in the target is claimed by a Hit or a Partial.
C3_Witness ==
    /\ pc = "replied"
    /\ \E c \in Range(guess) :
          /\ Cardinality({i \in 1..WordLen : guess[i] = c})
               > Cardinality({k \in 1..WordLen : target[k] = c})
          /\ Cardinality({i \in 1..WordLen :
                            guess[i] = c /\ reply[i] \in {Green, Yellow}})
               = Cardinality({k \in 1..WordLen : target[k] = c})
          /\ \E i \in 1..WordLen : guess[i] = c /\ reply[i] = Yellow
          /\ \E i \in 1..WordLen : guess[i] = c /\ reply[i] = Green


(***************************************************************************)
(* Words of the notebook.                                                  *)
(***************************************************************************)
HELLO == <<"H", "E", "L", "L", "O">>
WORLD == <<"W", "O", "R", "L", "D">>
CELLO == <<"C", "E", "L", "L", "O">>
ALLEY == <<"A", "L", "L", "E", "Y">>
HEAVY == <<"H", "E", "A", "V", "Y">>
HEART == <<"H", "E", "A", "R", "T">>
ALLAY == <<"A", "L", "L", "A", "Y">>
LILAC == <<"L", "I", "L", "A", "C">>

\* few = 'HELLO WORLD CELLO ALLEY HEAVY HEART ALLAY LILAC'.split()
few == <<HELLO, WORLD, CELLO, ALLEY, HEAVY, HEART, ALLAY, LILAC>>

\* Words of the corpus that the notebook's reports show sharing bins.
Lexicon == <<<<"B", "E", "L", "L", "E">>,
            <<"B", "E", "V", "E", "L">>,
            <<"B", "E", "Z", "E", "L">>,
            <<"S", "T", "A", "T", "E">>,
            <<"S", "T", "A", "K", "E">>,
            <<"S", "K", "A", "T", "E">>>>

LexiconWords == {Lexicon[k] : k \in 1..NWords}

\* A guess that shares no letter with the words of Lexicon.
DUMPY == <<"D", "U", "M", "P", "Y">>

GuessWords == LexiconWords \cup {DUMPY}

\* The sequences over S of length at most m.
SeqUpTo(S, m) == UNION {[1..k -> S] : k \in 0..m}

Distinct(s) == \A j, k \in DOMAIN s : j # k => s[j] # s[k]

\* The guess sequences of the model: up to MaxGuesses different words.
GuessSeqs == {gs \in SeqUpTo(GuessWords, MaxGuesses) : Distinct(gs)}

(***************************************************************************)
(* partition(guesses, targets)                                             *)
(***************************************************************************)
\* The defaultdict(list) is the sequence of its items [key, bin] in insertion
\* order.  The body of the loop, for one target:
\*     replies = tuple(reply_for(guess, target) for guess in guesses)
\*     partition[replies].append(target)
RepliesToFirstGuess(gs, t) ==
    [k \in 1..(IF gs = <<>> THEN 0 ELSE 1) |-> reply_for(gs[k], t)]

Replies(gs, t) == [k \in 1..Len(gs) |-> reply_for(gs[k], t)]

\* partition[replies].append(target)
PartitionPut(p, replies, t) ==
    IF \E j \in 1..Len(p) : p[j].key = replies
    THEN LET j == CHOOSE j \in 1..Len(p) : p[j].key = replies
         IN  [p EXCEPT ![j].bin = Append(@, t)]
    ELSE Append(p, [key |-> replies, bin |-> <<t>>])

PartitionAddOverwrite(p, gs, t) ==
    LET replies == Replies(gs, t)
    IN  IF \E j \in 1..Len(p) : p[j].key = replies
        THEN LET j == CHOOSE j \in 1..Len(p) : p[j].key = replies
             IN  [p EXCEPT ![j].bin = <<t>>]
        ELSE Append(p, [key |-> replies, bin |-> <<t>>])

PartitionAddReversedKey(p, gs, t) ==
    LET r       == Replies(gs, t)
        replies == [k \in 1..Len(gs) |-> r[Len(gs) + 1 - k]]
    IN  IF \E j \in 1..Len(p) : p[j].key = replies
        THEN LET j == CHOOSE j \in 1..Len(p) : p[j].key = replies
             IN  [p EXCEPT ![j].bin = Append(@, t)]
        ELSE Append(p, [key |-> replies, bin |-> <<t>>])

PartitionAddPrepend(p, gs, t) ==
    LET replies == Replies(gs, t)
    IN  IF \E j \in 1..Len(p) : p[j].key = replies
        THEN LET j == CHOOSE j \in 1..Len(p) : p[j].key = replies
             IN  [p EXCEPT ![j].bin = <<t>> \o @]
        ELSE <<[key |-> replies, bin |-> <<t>>]>> \o p

PartitionAdd(p, gs, t) == PartitionPut(p, Replies(gs, t), t)

\* for target in targets: ...; return partition
RECURSIVE PartitionFrom(_, _, _, _)
PartitionFrom(p, gs, ts, i) ==
    IF i > Len(ts) THEN p
    ELSE PartitionFrom(PartitionAdd(p, gs, ts[i]), gs, ts, i + 1)

partition(gs, ts) == PartitionFrom(<<>>, gs, ts, 1)

(***************************************************************************)
(* can_win(guesses, targets) and can_win_bin(guess, bin)                   *)
(***************************************************************************)
\* all(len(bin5) == 1 for bin5 in partition([guess], bin).values())
can_win_bin_AtMostTwo(g, bin) ==
    LET p == partition(<<g>>, bin)
    IN  \A j \in 1..Len(p) : Len(p[j].bin) <= 2

can_win_bin(g, bin) ==
    LET p == partition(<<g>>, bin)
    IN  \A j \in 1..Len(p) : Len(p[j].bin) = 1

\* len(bin) < 2 or all(can_win_bin(w, bin) for w in bin)
BinWinsSomeWord(bin) ==
    Len(bin) < 2 \/ \E k \in 1..Len(bin) : can_win_bin(bin[k], bin)

BinWins(bin) ==
    Len(bin) < 2 \/ \A k \in 1..Len(bin) : can_win_bin(bin[k], bin)

\* all(... for bin in partition(guesses, targets).values())
AllBinsWin(p) == \A j \in 1..Len(p) : BinWins(p[j].bin)

can_win(gs, ts) == AllBinsWin(partition(gs, ts))

(***************************************************************************)
(* SpecWin: one call can_win(guesses, targets): the loop of partition over *)
(* the targets, then the test of every bin.  The arguments are guesses of  *)
(* GuessSeqs and any targets drawn from LexiconWords, or the notebook's    *)
(* calls on few.                                                           *)
(***************************************************************************)
InitWin ==
    /\ pc = "partition"
    /\ \/ /\ guesses \in GuessSeqs
          /\ targets \in SeqUpTo(LexiconWords, MaxTargets)
       \/ /\ guesses \in {<<HELLO>>, <<HELLO, WORLD>>}
          /\ targets = few
    /\ idx = 1
    /\ part = <<>>
    /\ verdict = FALSE
    /\ ReplyIdle /\ PlayIdle /\ DjIdle /\ OtherIdle

PartitionStep ==
    /\ pc = "partition"
    /\ idx <= Len(targets)
    /\ part' = PartitionAdd(part, guesses, targets[idx])
    /\ idx' = idx + 1
    /\ UNCHANGED <<pc, guesses, targets, verdict, replyVars, playVars, djVars, otherVars>>

PartitionReturn ==
    /\ pc = "partition"
    /\ idx > Len(targets)
    /\ pc' = "partitioned"
    /\ UNCHANGED <<winVars, replyVars, playVars, djVars, otherVars>>

CanWinReturn ==
    /\ pc = "partitioned"
    /\ verdict' = AllBinsWin(part)
    /\ pc' = "done"
    /\ UNCHANGED <<guesses, targets, idx, part, replyVars, playVars, djVars, otherVars>>

NextWin == PartitionStep \/ PartitionReturn \/ CanWinReturn

SpecWin == InitWin /\ [][NextWin]_vars

Partitioned == pc \in {"partitioned", "done"}

Bins == {part[j].bin : j \in 1..Len(part)}

RECURSIVE SumOfLens(_, _)
SumOfLens(p, j) == IF j > Len(p) THEN 0 ELSE Len(p[j].bin) + SumOfLens(p, j + 1)


\* C4: partitioning few by the single guess HELLO gives exactly the 6 bins
\* GGGGG [HELLO], ...GY [WORLD], .GGGG [CELLO], .YGY. [ALLEY],
\* GG... [HEAVY, HEART], ..GY. [ALLAY, LILAC]; reply_for(HELLO, CELLO) is
\* a Miss and four Hits, reply_for(HELLO, ALLEY) is Miss, Partial, Hit,
\* Partial, Miss.  (The key of a bin is the 1-tuple holding that reply.)
C4_FewByHello ==
    (Partitioned /\ guesses = <<HELLO>> /\ targets = few) =>
        /\ part = << [key |-> << <<"G", "G", "G", "G", "G">> >>, bin |-> <<HELLO>>],
                     [key |-> << <<".", ".", ".", "G", "Y">> >>, bin |-> <<WORLD>>],
                     [key |-> << <<".", "G", "G", "G", "G">> >>, bin |-> <<CELLO>>],
                     [key |-> << <<".", "Y", "G", "Y", ".">> >>, bin |-> <<ALLEY>>],
                     [key |-> << <<"G", "G", ".", ".", ".">> >>, bin |-> <<HEAVY, HEART>>],
                     [key |-> << <<".", ".", "G", "Y", ".">> >>, bin |-> <<ALLAY, LILAC>>] >>
        /\ Len(part) = 6
        /\ reply_for(HELLO, CELLO) = <<Miss, Green, Green, Green, Green>>
        /\ reply_for(HELLO, ALLEY) = <<Miss, Yellow, Green, Yellow, Miss>>

C4_Witness ==
    /\ pc = "partitioned"
    /\ guesses = <<HELLO>>
    /\ targets = few
    /\ \E j \in 1..Len(part) : part[j].bin = <<ALLAY, LILAC>>

\* C5: for distinct targets the bins of partition(guesses, targets) are
\* non-empty and pairwise disjoint, their union is the set of targets and
\* their sizes add up to the number of targets.
C5_PartitionComplete ==
    (Partitioned /\ Distinct(targets)) =>
        /\ \A j \in 1..Len(part) : Len(part[j].bin) >= 1
        /\ \A j, k \in 1..Len(part) :
              j # k => Range(part[j].bin) \cap Range(part[k].bin) = {}
        /\ UNION {Range(b) : b \in Bins} = Range(targets)
        /\ SumOfLens(part, 1) = Len(targets)
        /\ \A j \in 1..Len(part) : Distinct(part[j].bin)

\* Three distinct targets in two bins, one of them holding two words.
C5_Witness ==
    /\ pc = "partitioned"
    /\ Distinct(targets)
    /\ Len(targets) = 3
    /\ Len(guesses) >= 1
    /\ Len(part) = 2

\* C6: every key holds one reply per guess, in guess order; a target lies in
\* the bin of key k exactly when k[i] = reply_for(guesses[i], target) for
\* every i; two targets share a bin exactly when every guess gives both the
\* same reply.
C6_BinOfKey ==
    Partitioned =>
        \A R \in {[t \in Range(targets) |-> Replies(guesses, t)]} :
            /\ \A j \in 1..Len(part) :
                  /\ Len(part[j].key) = Len(guesses)
                  /\ \A t \in Range(targets) :
                        (t \in Range(part[j].bin))
                          <=> (\A i \in 1..Len(guesses) : part[j].key[i] = R[t][i])
            /\ \A j, k \in 1..Len(part) : j # k => part[j].key # part[k].key
            /\ \A t1, t2 \in Range(targets) :
                  (\E b \in Bins : t1 \in Range(b) /\ t2 \in Range(b))
                    <=> (\A i \in 1..Len(guesses) : R[t1][i] = R[t2][i])

\* Two guesses whose replies differ, two targets sharing a bin and a third
\* target in another bin.
C6_Witness ==
    /\ pc = "partitioned"
    /\ Len(guesses) = 2
    /\ Len(part) = 2
    /\ \E j \in 1..Len(part) :
          /\ Len(part[j].bin) = 2
          /\ part[j].bin[1] # part[j].bin[2]
          /\ part[j].key[1] # part[j].key[2]

\* The sub-bins of bin B under the single guess w, as the sets of words of B
\* that get the same reply from w.
SubBinOf(w, B, t) == {u \in Range(B) : reply_for(w, u) = reply_for(w, t)}

\* Positions of B holding a word of the set S.
Occurrences(B, S) == {k \in 1..Len(B) : B[k] \in S}

\* C7: can_win(guesses, targets) is true exactly when, for every bin B of
\* partition(guesses, targets) with at least 2 words and every word w of B,
\* partition([w], B) has only bins of size exactly 1.
C7_CanWinIffAllSplit ==
    pc = "done" =>
        (verdict
           <=> \A B \in Bins :
                  Len(B) >= 2 =>
                     \A w \in Range(B) : \A t \in Range(B) :
                        Cardinality(Occurrences(B, SubBinOf(w, B, t))) = 1)

\* A false verdict on a bin of three words of which one word does split the
\* bin into singletons (and so another one does not).
C7_Witness ==
    /\ pc = "done"
    /\ ~verdict
    /\ \E B \in Bins : Len(B) = 3 /\ \E k \in 1..3 : can_win_bin(B[k], B)

(***************************************************************************)
(* SpecPlay: the strategy the notebook verifies with can_win.  A target of *)
(* targets is hidden; the player makes the fixed guesses in order and then *)
(* keeps guessing any word of targets that is consistent with all replies  *)
(* received so far; the play ends when a guess is the hidden target.       *)
(* verdict holds can_win(guesses, targets).                                *)
(***************************************************************************)
Last(s) == s[Len(s)]

Won == made # <<>> /\ Last(made) = hidden

\* The words of ts that give every guess of ms the reply the target t gives.
ConsistentWith(ms, ts, t) ==
    {w \in Range(ts) :
        \A k \in 1..Len(ms) : reply_for(ms[k], w) = reply_for(ms[k], t)}

InitPlay ==
    /\ pc = "play"
    /\ guesses \in GuessSeqs
    /\ targets \in {ts \in SeqUpTo(LexiconWords, MaxTargets) : Distinct(ts)}
    /\ hidden \in Range(targets)
    /\ made = <<>>
    /\ verdict = can_win(guesses, targets)
    /\ idx = 0
    /\ part = <<>>
    /\ ReplyIdle /\ DjIdle /\ OtherIdle

PlayFixed ==
    /\ pc = "play"
    /\ ~Won
    /\ Len(made) < Len(guesses)
    /\ made' = Append(made, guesses[Len(made) + 1])
    /\ UNCHANGED <<pc, hidden, winVars, replyVars, djVars, otherVars>>

PlayConsistent ==
    /\ pc = "play"
    /\ ~Won
    /\ Len(made) >= Len(guesses)
    /\ Len(made) < Len(guesses) + MaxExtra
    /\ \E w \in ConsistentWith(made, targets, hidden) :
          made' = Append(made, w)
    /\ UNCHANGED <<pc, hidden, winVars, replyVars, djVars, otherVars>>

NextPlay == PlayFixed \/ PlayConsistent

SpecPlay == InitPlay /\ [][NextPlay]_vars

\* Some target t and some play on it make the fixed guesses gs and two
\* consistent guesses without guessing t.
SomePlayNeedsThird(gs, ts) ==
    \E t \in Range(ts) :
        /\ t \notin Range(gs)
        /\ \E w1 \in ConsistentWith(gs, ts, t) :
              /\ w1 # t
              /\ \E w2 \in ConsistentWith(Append(gs, w1), ts, t) : w2 # t

\* C8: for distinct targets, can_win(guesses, targets) is true exactly when
\* every play on every hidden target has guessed it by guess number
\* len(guesses) + 2: when true, no play reaches len(guesses) + 2 guesses
\* without having won; when false, some play does.
C8_CanWinIffTwoMoreGuesses ==
    pc = "play" =>
        /\ verdict => (Len(made) >= Len(guesses) + 2 => Won)
        /\ (~Won /\ Len(made) >= Len(guesses) + 2) => ~verdict
        /\ made = <<>> => (~verdict => SomePlayNeedsThird(guesses, targets))

\* A winning guess sequence, three consistent words left after the fixed
\* guesses, and a play that wins with its second additional guess.
C8_Witness ==
    /\ pc = "play"
    /\ verdict
    /\ Len(guesses) >= 1
    /\ Cardinality(ConsistentWith(guesses, targets, hidden)) = 3
    /\ Len(made) = Len(guesses) + 2
    /\ Won


(***************************************************************************)
(* disjoint_words(n, words, letters)                                       *)
(***************************************************************************)
\* letters = set('ABCDEFGHIKLMNOPRSTUVWY') # Missing JQXZ
DefaultLetters ==
    {"A", "B", "C", "D", "E", "F", "G", "H", "I", "K", "L", "M", "N", "O",
     "P", "R", "S", "T", "U", "V", "W", "Y"}

AllLetters == DefaultLetters \cup {"J", "Q", "X", "Z"}

\* len(wletters) == 5
DistinctLetters == 5

\* Words of the notebook: ABHOR, CLEFT (part of the tuple disjoint_words(4)
\* returns), CRAFT (shares letters with both), HELLO (a repeated letter),
\* JAUNT (a letter outside DefaultLetters), DUMPY, SWING.
PoolLexicon == <<<<"C", "R", "A", "F", "T">>,
                <<"A", "B", "H", "O", "R">>,
                <<"C", "L", "E", "F", "T">>,
                <<"H", "E", "L", "L", "O">>,
                <<"J", "A", "U", "N", "T">>,
                <<"D", "U", "M", "P", "Y">>,
                <<"S", "W", "I", "N", "G">>>>

PoolWords == {PoolLexicon[k] : k \in 1..NPool}

\* A budget of ten letters, those of ABHOR and CLEFT.
TenLetters == Range(PoolLexicon[2]) \cup Range(PoolLexicon[3])

\* wletters = set(w); wletters.issubset(letters) and len(wletters) == 5
IsCandidateAnyCount(w, ls) == Range(w) \subseteq ls

IsCandidate(w, ls) ==
    Range(w) \subseteq ls /\ Cardinality(Range(w)) = DistinctLetters

\* letters - wletters
RestLettersUnchanged(ls, w) == ls

RestLetters(ls, w) == ls \ Range(w)

None == [none |-> TRUE, tuple |-> <<>>]
Tuple(t) == [none |-> FALSE, tuple |-> t]

Top == stack[Len(stack)]
Pop == SubSeq(stack, 1, Len(stack) - 1)

\* The finished call hands v to its caller, or to the top level.
Return(v) ==
    /\ ret' = [none |-> v.none, tuple |-> v.tuple,
               n |-> Top.n, letters |-> Top.letters]
    /\ stack' = Pop
    /\ pc' = IF Len(stack) > 1 THEN "returned" ELSE "done"

(***************************************************************************)
(* SpecDisjoint: one call disjoint_words(n, pool, letters) with its        *)
(* recursive calls, on any pool of up to MaxPool different words of        *)
(* PoolWords, in any order.                                                *)
(***************************************************************************)
InitDisjoint ==
    /\ pc = "call"
    /\ n \in -1..MaxN
    /\ pool \in {ws \in SeqUpTo(PoolWords, MaxPool) : Distinct(ws)}
    /\ letters \in {DefaultLetters, AllLetters, TenLetters}
    /\ stack = <<[n |-> n, letters |-> letters, i |-> 1]>>
    /\ ret = [none |-> TRUE, tuple |-> <<>>, n |-> 0, letters |-> {}]
    /\ ReplyIdle /\ WinIdle /\ PlayIdle /\ OtherIdle

\* if n == 0: return ()
DjBase ==
    /\ pc = "call"
    /\ Top.n = 0
    /\ Return(Tuple(<<>>))
    /\ UNCHANGED <<n, pool, letters, replyVars, winVars, playVars, otherVars>>

\* n != 0: enter the loop for w in words
DjEnterLoop ==
    /\ pc = "call"
    /\ Top.n # 0
    /\ pc' = "loop"
    /\ UNCHANGED <<djVars, replyVars, winVars, playVars, otherVars>>

\* the if of the loop body is false: next w
DjSkip ==
    /\ pc = "loop"
    /\ Top.i <= Len(pool)
    /\ ~IsCandidate(pool[Top.i], Top.letters)
    /\ stack' = [stack EXCEPT ![Len(stack)].i = @ + 1]
    /\ UNCHANGED <<pc, n, pool, letters, ret, replyVars, winVars, playVars, otherVars>>

\* rest = disjoint_words(n - 1, words, letters - wletters)
DjRecurse ==
    /\ pc = "loop"
    /\ Top.i <= Len(pool)
    /\ IsCandidate(pool[Top.i], Top.letters)
    /\ stack' = Append(stack, [n |-> Top.n - 1,
                               letters |-> RestLetters(Top.letters, pool[Top.i]),
                               i |-> 1])
    /\ pc' = "call"
    /\ UNCHANGED <<n, pool, letters, ret, replyVars, winVars, playVars, otherVars>>

DjRestFoundAppend ==
    /\ pc = "returned"
    /\ ~ret.none
    /\ Return(Tuple(ret.tuple \o <<pool[Top.i]>>))
    /\ UNCHANGED <<n, pool, letters, replyVars, winVars, playVars, otherVars>>

\* if rest is not None: return (w, *rest)
DjRestFound ==
    /\ pc = "returned"
    /\ ~ret.none
    /\ Return(Tuple(<<pool[Top.i]>> \o ret.tuple))
    /\ UNCHANGED <<n, pool, letters, replyVars, winVars, playVars, otherVars>>

DjRestNoneGivesUp ==
    /\ pc = "returned"
    /\ ret.none
    /\ Return(None)
    /\ UNCHANGED <<n, pool, letters, replyVars, winVars, playVars, otherVars>>

\* rest is None: next w
DjRestNone ==
    /\ pc = "returned"
    /\ ret.none
    /\ stack' = [stack EXCEPT ![Len(stack)].i = @ + 1]
    /\ pc' = "loop"
    /\ UNCHANGED <<n, pool, letters, ret, replyVars, winVars, playVars, otherVars>>

\* the loop is over: return None
DjExhausted ==
    /\ pc = "loop"
    /\ Top.i > Len(pool)
    /\ Return(None)
    /\ UNCHANGED <<n, pool, letters, replyVars, winVars, playVars, otherVars>>

NextDisjoint ==
    \/ DjBase \/ DjEnterLoop \/ DjSkip \/ DjRecurse
    \/ DjRestFound \/ DjRestNone \/ DjExhausted

SpecDisjoint == InitDisjoint /\ [][NextDisjoint]_vars

\* C10: whenever a call disjoint_words(n, pool, letters) returns a tuple, the
\* tuple has exactly n words, each a member of the pool with exactly 5
\* distinct letters, all taken from letters, and no letter occurs in two of
\* the words (so the tuple covers exactly 5 * n distinct permitted letters).
C10_TupleIsDisjoint ==
    (pc \in {"returned", "done"} /\ ~ret.none) =>
        /\ Len(ret.tuple) = ret.n
        /\ \A k \in 1..Len(ret.tuple) :
              /\ ret.tuple[k] \in Range(pool)
              /\ Cardinality(Range(ret.tuple[k])) = 5
              /\ Range(ret.tuple[k]) \subseteq ret.letters
        /\ \A j, k \in 1..Len(ret.tuple) :
              j # k => Range(ret.tuple[j]) \cap Range(ret.tuple[k]) = {}
        /\ Cardinality(UNION {Range(ret.tuple[k]) : k \in 1..Len(ret.tuple)})
             = 5 * ret.n

\* The outermost call returns three words after the first candidate of the
\* pool had to be given up.
C10_Witness ==
    /\ pc = "done"
    /\ ~ret.none
    /\ Len(ret.tuple) = 3
    /\ ret.tuple[1] # pool[1]
    /\ IsCandidate(pool[1], letters)


\* Some k different words of ws have 5 distinct letters each, all within ls,
\* and share no letter with one another.
SolutionExists(k, ws, ls) ==
    \E S \in SUBSET Range(ws) :
        /\ Cardinality(S) = k
        /\ \A w \in S : Range(w) \subseteq ls /\ Cardinality(Range(w)) = DistinctLetters
        /\ \A v, w \in S : v # w => Range(v) \cap Range(w) = {}

\* C11: when the pool holds no n words of 5 distinct letters each, pairwise
\* disjoint and within the letter budget, the call returns None, at the top
\* level and in every recursive call; no step of the call fails: until the
\* outermost call has returned, the call can take its next step.
C11_NoSolutionIsNone ==
    /\ (pc \in {"returned", "done"} /\ ~SolutionExists(ret.n, pool, ret.letters))
          => ret.none
    /\ pc # "done" => ENABLED NextDisjoint

\* The outermost call asked for two words, found candidates, recursed, and
\* returned None.
C11_Witness ==
    /\ pc = "done"
    /\ ret.none
    /\ n = 2
    /\ Cardinality({k \in 1..Len(pool) : IsCandidate(pool[k], letters)}) >= 2


\* The position in ts of the first target whose replies are the key.
FirstWithKey(R, ts, key) ==
    CHOOSE k \in 1..Len(ts) :
        /\ R[ts[k]] = key
        /\ \A j \in 1..(k - 1) : R[ts[j]] # key

\* C14: partition visits every target once, in order, and appends it to the
\* bin of its replies: in the partition returned every target has the bin of
\* its replies, each bin is the targets with the bin's key, in the order of
\* the targets (a word repeated in the targets is repeated in its bin), and
\* the bins stand in the order in which their keys first occur among the
\* targets.  On few with the guesses HELLO, WORLD the bins come in the order
\* of the notebook's output.
C14_BinsInTargetOrder ==
    pc = "partitioned" =>
        \A R \in {[t \in Range(targets) |-> Replies(guesses, t)]} :
            /\ \A k \in 1..Len(targets) :
                  \E j \in 1..Len(part) : part[j].key = R[targets[k]]
            /\ \A j \in 1..Len(part) :
                  part[j].bin = SelectSeq(targets, LAMBDA t : R[t] = part[j].key)
            /\ \A F \in {[j \in 1..Len(part) |->
                            FirstWithKey(R, targets, part[j].key)]} :
                  \A j \in 1..(Len(part) - 1) : F[j] < F[j + 1]
            /\ (guesses = <<HELLO, WORLD>> /\ targets = few)
                  => [j \in 1..Len(part) |-> part[j].bin]
                       = << <<HELLO>>, <<WORLD>>, <<CELLO>>, <<ALLEY>>, <<HEAVY>>,
                            <<HEART>>, <<ALLAY, LILAC>> >>

\* partition has returned at least two bins, the first of which took the
\* first and the third target, around a word of a later bin.
C14_Witness ==
    /\ pc = "partitioned"
    /\ Len(part) >= 2
    /\ Len(part[1].bin) = 2
    /\ Len(targets) = 3
    /\ part[1].bin = <<targets[1], targets[3]>>


\* C15: can_win([], targets) fails at no step; partition([], targets) holds
\* all the targets in one bin whose key is the empty tuple (no bin at all when
\* there are no targets); and the result is true exactly when targets has
\* fewer than 2 words, or every word of targets, used as the guess, leaves
\* every target alone in its bin of partition([word], targets).
C15_EmptyGuesses ==
    guesses = <<>> =>
        /\ pc # "done" => ENABLED NextWin
        /\ Partitioned =>
              part = IF targets = <<>> THEN <<>>
                     ELSE <<[key |-> <<>>, bin |-> targets]>>
        /\ pc = "done" =>
              (verdict <=>
                  \/ Len(targets) < 2
                  \/ \A w, t \in Range(targets) :
                        Cardinality(Occurrences(targets, SubBinOf(w, targets, t))) = 1)

\* can_win([], targets) has returned true for three targets.
C15_Witness ==
    /\ pc = "done"
    /\ guesses = <<>>
    /\ Len(targets) = 3
    /\ verdict


\* C16: if can_win(guesses, targets) is true then, for any further guess g
\* put in front of guesses, every bin of partition(guesses, targets) that
\* holds a single word is a bin of partition([g] + guesses, targets) too,
\* holding the same single word.
C16_SingletonsStay ==
    (pc = "done" /\ verdict) =>
        \A g \in GuessWords :
            \A P \in {partition(<<g>> \o guesses, targets)} :
                \A j \in 1..Len(part) :
                    Len(part[j].bin) = 1 =>
                        \E i \in 1..Len(P) :
                            /\ P[i].bin = part[j].bin
                            /\ P[i].key = <<reply_for(g, part[j].bin[1])>> \o part[j].key

\* can_win is true of a partition with a singleton bin and a larger bin that
\* some further guess splits.
C16_Witness ==
    /\ pc = "done"
    /\ verdict
    /\ guesses # <<>>
    /\ \E j \in 1..Len(part) : Len(part[j].bin) = 1
    /\ \E g \in GuessWords : Len(partition(<<g>> \o guesses, targets)) > Len(part)


(***************************************************************************)
(* report(guesses)                                                         *)
(***************************************************************************)
\* The notebook's rule for one bin: the bin is 1 or 2 words, or guessing any
\* word of the bin leaves only bins of size 1.
NotebookRule(bin) ==
    Len(bin) \in {1, 2} \/ \A k \in 1..Len(bin) : can_win_bin(bin[k], bin)

\* fails = ", ".join(w for w in bin if not can_win_bin(w, bin))
Fails(bin) == SelectSeq(bin, LAMBDA w : ~can_win_bin(w, bin))

\* What report prints: winner or loser, and one line for each bin of more
\* than 2 words, in the order of the bins, with the words of the bin that
\* will not work.
report(gs, ts) ==
    LET bins == partition(gs, ts)
        big  == SelectSeq(bins, LAMBDA b : Len(b.bin) > 2)
    IN  [winner |-> can_win(gs, ts),
         lines  |-> [j \in 1..Len(big) |->
                        [bin |-> big[j].bin, fails |-> Fails(big[j].bin)]]]

(***************************************************************************)
(* SpecReport: one call report(guesses), with any targets drawn from       *)
(* LexiconWords as the word list.                                          *)
(***************************************************************************)
InitReport ==
    /\ pc = "report"
    /\ guesses \in GuessSeqs
    /\ targets \in SeqUpTo(LexiconWords, MaxTargets)
    /\ idx = 0 /\ part = <<>> /\ verdict = FALSE
    /\ ReplyIdle /\ PlayIdle /\ DjIdle /\ OtherIdle

Report ==
    /\ pc = "report"
    /\ printed' = report(guesses, targets)
    /\ pc' = "reported"
    /\ UNCHANGED <<winVars, replyVars, playVars, djVars, topVars, sessVars, lifeVars>>

NextReport == Report

SpecReport == InitReport /\ [][NextReport]_vars

\* C17: for distinct targets, a bin of exactly 2 words always passes the
\* check, each of its words splitting it into two singleton bins; so on every
\* bin the notebook's rule (1 or 2 words, or every word leaves only bins of
\* size 1) agrees with the code's test (fewer than 2 words, or every word
\* leaves only bins of size 1), and report prints loser exactly when it
\* lists at least one failing word in some bin of more than 2 words.
C17_ReportAgreesWithCanWin ==
    (pc = "reported" /\ Distinct(targets)) =>
        \A P \in {partition(guesses, targets)} :
            /\ \A j \in 1..Len(P) :
                  /\ Len(P[j].bin) = 2 =>
                        \A k \in 1..2 : Len(partition(<<P[j].bin[k]>>, P[j].bin)) = 2
                  /\ NotebookRule(P[j].bin) <=> BinWins(P[j].bin)
            /\ printed.winner <=> \A j \in 1..Len(P) : NotebookRule(P[j].bin)
            /\ ~printed.winner <=>
                  \E j \in 1..Len(printed.lines) : printed.lines[j].fails # <<>>

\* report has printed loser for distinct targets, with a bin of 3 words of
\* which some but not all will not work.
C17_Witness ==
    /\ pc = "reported"
    /\ Distinct(targets)
    /\ ~printed.winner
    /\ \E j \in 1..Len(printed.lines) :
          /\ printed.lines[j].fails # <<>>
          /\ Len(printed.lines[j].fails) < Len(printed.lines[j].bin)


\* The pool position of a word of the pool.
PoolPos(w) == CHOOSE k \in 1..Len(pool) : pool[k] = w

\* The pool positions q[1], ..., q[k] hold words of 5 distinct letters each,
\* within ls, no two of which share a letter.
ValidPositions(q, ls) ==
    /\ \A j \in DOMAIN q :
          Range(pool[q[j]]) \subseteq ls
              /\ Cardinality(Range(pool[q[j]])) = DistinctLetters
    /\ \A i, j \in DOMAIN q : i # j => Range(pool[q[i]]) \cap Range(pool[q[j]]) = {}

\* a comes before b, or is b, in the lexicographic order.
LexLeq(a, b) ==
    a = b \/ \E k \in DOMAIN a : a[k] < b[k] /\ \A j \in 1..(k - 1) : a[j] = b[j]

\* C18: the tuple a call of disjoint_words returns follows the order of the
\* pool: compared by the pool positions of their words it is the least, in
\* the lexicographic order, of the valid tuples of n words, and its words
\* stand in strictly increasing pool position.
C18_TupleIsLexLeast ==
    (pc \in {"returned", "done"} /\ ~ret.none) =>
        \A pos \in {[k \in 1..Len(ret.tuple) |-> PoolPos(ret.tuple[k])]} :
            /\ \A q \in [1..ret.n -> 1..Len(pool)] :
                  ValidPositions(q, ret.letters) => LexLeq(pos, q)
            /\ \A j, k \in DOMAIN pos : j < k => pos[j] < pos[k]

\* The outermost call has returned a tuple of at least two words after it
\* gave up an earlier candidate of the pool.
C18_Witness ==
    /\ pc = "done"
    /\ ~ret.none
    /\ Len(ret.tuple) >= 2
    /\ \E k \in 1..Len(pool) :
          /\ k < PoolPos(ret.tuple[1])
          /\ IsCandidate(pool[k], letters)


(***************************************************************************)
(* SpecReplyLen: one call reply_for(guess, target) on two words of the     *)
(* same length, from 0 to MaxLen letters.                                  *)
(***************************************************************************)
TwoLetters == {"A", "B"}

InitReplyLen ==
    /\ pc = "reply_for"
    /\ \E L \in 0..MaxLen :
          /\ guess \in [1..L -> TwoLetters]
          /\ target \in [1..L -> TwoLetters]
    /\ reply = <<>>
    /\ WinIdle /\ PlayIdle /\ DjIdle /\ OtherIdle

\* guess[i] or target[i] with i in range(5) beyond the end of the word:
\* IndexError in the first comprehension, nothing is returned.
ReplyForIndexError ==
    /\ pc = "reply_for"
    /\ Len(guess) < WordLen \/ Len(target) < WordLen
    /\ pc' = "raised"
    /\ UNCHANGED <<replyVars, winVars, playVars, djVars, otherVars>>

NextReplyLen == ReplyFor \/ ReplyForIndexError

SpecReplyLen == InitReplyLen /\ [][NextReplyLen]_vars

IsReplyOfLen(r, L) ==
    Len(r) = L /\ \A i \in 1..L : r[i] \in {Green, Yellow, Miss}

\* C12 as stated: for two words of the same length L, whatever L is,
\* reply_for raises no error and returns a reply of exactly L symbols, each
\* Hit, Partial or Miss.
C12_AnyLengthAsStated ==
    /\ pc # "raised"
    /\ pc = "replied" => IsReplyOfLen(reply, Len(guess))

\* C12, amended: for two words of the same length L, reply_for returns a
\* reply of exactly 5 symbols, each Hit, Partial or Miss, when L >= 5, the
\* reply of the words' first 5 letters, and raises IndexError, returning
\* nothing, when L < 5; so it returns one symbol for each position of the
\* guess exactly when L = 5.
C12_FiveSymbolsOrIndexError ==
    /\ pc = "reply_for" => ENABLED NextReplyLen
    /\ pc = "replied" =>
          /\ Len(guess) >= 5
          /\ IsReplyOfLen(reply, 5)
          /\ reply = reply_for(SubSeq(guess, 1, 5), SubSeq(target, 1, 5))
          /\ Len(reply) = Len(guess) <=> Len(guess) = 5
    /\ pc = "raised" => Len(guess) < 5 /\ reply = <<>>

\* reply_for has answered all Hits, 5 symbols, to a guess of 6 letters that
\* is not the target.
C12_Witness ==
    /\ pc = "replied"
    /\ Len(guess) = 6
    /\ guess # target
    /\ reply = <<Green, Green, Green, Green, Green>>


(***************************************************************************)
(* top(n, items, key) and bot(n, items, key)                               *)
(***************************************************************************)
\* sorted(items, key=key) is stable: an item goes behind the items already
\* placed whose key is smaller or the same.
InsertAscending(s, x, K) ==
    LET c == Cardinality({j \in 1..Len(s) : K[s[j]] <= K[x]})
    IN  SubSeq(s, 1, c) \o <<x>> \o SubSeq(s, c + 1, Len(s))

InsertDescendingTiesFirst(s, x, K) ==
    LET c == Cardinality({j \in 1..Len(s) : K[s[j]] > K[x]})
    IN  SubSeq(s, 1, c) \o <<x>> \o SubSeq(s, c + 1, Len(s))

\* sorted(items, key=key, reverse=True) is stable too: an item goes behind
\* the items already placed whose key is larger or the same.
InsertDescending(s, x, K) ==
    LET c == Cardinality({j \in 1..Len(s) : K[s[j]] >= K[x]})
    IN  SubSeq(s, 1, c) \o <<x>> \o SubSeq(s, c + 1, Len(s))

RECURSIVE SortedFrom(_, _, _, _, _)
SortedFrom(s, its, K, reverse, i) ==
    IF i > Len(its) THEN s
    ELSE SortedFrom(IF reverse THEN InsertDescending(s, its[i], K)
                               ELSE InsertAscending(s, its[i], K),
                    its, K, reverse, i + 1)

sorted(its, K, reverse) == SortedFrom(<<>>, its, K, reverse, 1)

\* s[:m] for m >= 0
Take(s, m) == SubSeq(s, 1, IF m < Len(s) THEN m ELSE Len(s))

\* {item: key(item) for item in s}: the dict as the list of its pairs in
\* insertion order; an item met again keeps its place.
DictOf(s, K) ==
    LET firsts == SelectSeq([j \in 1..Len(s) |-> j],
                            LAMBDA j : \A i \in 1..(j - 1) : s[i] # s[j])
    IN  [j \in 1..Len(firsts) |-> <<s[firsts[j]], K[s[firsts[j]]]>>]

top(m, its, K) == DictOf(Take(sorted(its, K, TRUE), m), K)

bot(m, its, K) == DictOf(Take(sorted(its, K, FALSE), m), K)

(***************************************************************************)
(* SpecTop: one call top(n, items, key) or bot(n, items, key), on items    *)
(* that are different words, as the notebook's calls on words are, with    *)
(* any key values and any n >= 0.                                          *)
(***************************************************************************)
ItemWords == {few[k] : k \in 1..MaxItems}

InitTop ==
    /\ pc = "rank"
    /\ items \in {its \in SeqUpTo(ItemWords, MaxItems) : Distinct(its)}
    /\ keyOf \in [Range(items) -> 0..MaxKey]
    /\ n \in 0..MaxItems
    /\ ranked = <<>>
    /\ pool = <<>> /\ letters = {} /\ stack = <<>>
    /\ ret = [none |-> TRUE, tuple |-> <<>>, n |-> 0, letters |-> {}]
    /\ ReplyIdle /\ WinIdle /\ PlayIdle /\ ReportIdle /\ SessIdle /\ LifeIdle

TopCall ==
    /\ pc = "rank"
    /\ ranked' = top(n, items, keyOf)
    /\ pc' = "top"
    /\ UNCHANGED <<items, keyOf, djVars, replyVars, winVars, playVars,
                   reportVars, sessVars, lifeVars>>

BotCall ==
    /\ pc = "rank"
    /\ ranked' = bot(n, items, keyOf)
    /\ pc' = "bot"
    /\ UNCHANGED <<items, keyOf, djVars, replyVars, winVars, playVars,
                   reportVars, sessVars, lifeVars>>

NextTop == TopCall \/ BotCall

SpecTop == InitTop /\ [][NextTop]_vars

\* The position of an item in items.
ItemPos(x) == CHOOSE k \in 1..Len(items) : items[k] = x

\* x stands before y in the ranking from the largest key down, or from the
\* smallest key up, items of the same key in the order of items.
Before(x, y, down) ==
    \/ IF down THEN keyOf[x] > keyOf[y] ELSE keyOf[x] < keyOf[y]
    \/ keyOf[x] = keyOf[y] /\ ItemPos(x) < ItemPos(y)

\* C19: top(n, items, key) returns the n items of largest key (all the items
\* when there are fewer than n), each with its key, from the largest key
\* down, and bot(n, items, key) the n items of smallest key from the
\* smallest key up; in both, items of the same key stand in their order in
\* items, within the result and in the choice of the items returned.
C19_TopAndBotRanked ==
    pc \in {"top", "bot"} =>
        \A down \in {pc = "top"} :
            /\ Len(ranked) = IF n < Len(items) THEN n ELSE Len(items)
            /\ \A j \in 1..Len(ranked) :
                  /\ ranked[j][1] \in Range(items)
                  /\ ranked[j][2] = keyOf[ranked[j][1]]
            /\ \A j, k \in 1..Len(ranked) :
                  j < k => Before(ranked[j][1], ranked[k][1], down)
            /\ \A x \in Range(items) :
                  x \notin {ranked[j][1] : j \in 1..Len(ranked)} =>
                      \A j \in 1..Len(ranked) : Before(ranked[j][1], x, down)

\* top has returned two of three items, taking from two items of the same
\* key the one that comes first in items and leaving the other out.
C19_Witness ==
    /\ pc = "top"
    /\ n = 2
    /\ Len(items) = 3
    /\ keyOf[items[1]] < keyOf[items[2]]
    /\ keyOf[items[1]] = keyOf[items[3]]
    /\ ranked = <<<<items[2], keyOf[items[2]]>>, <<items[1], keyOf[items[1]]>>>>


(***************************************************************************)
(* disjoint_words as a function of its arguments.                          *)
(***************************************************************************)
RECURSIVE disjoint_words(_, _, _)
RECURSIVE DisjointLoop(_, _, _, _)

\* for w in words, from position i on
DisjointLoop(k, ws, ls, i) ==
    IF i > Len(ws) THEN None
    ELSE IF IsCandidate(ws[i], ls)
         THEN LET rest == disjoint_words(k - 1, ws, RestLetters(ls, ws[i]))
              IN  IF ~rest.none THEN Tuple(<<ws[i]>> \o rest.tuple)
                  ELSE DisjointLoop(k, ws, ls, i + 1)
         ELSE DisjointLoop(k, ws, ls, i + 1)

disjoint_words(k, ws, ls) ==
    IF k = 0 THEN Tuple(<<>>) ELSE DisjointLoop(k, ws, ls, 1)

(***************************************************************************)
(* The memo caches.  cache = functools.lru_cache(None) keeps, for every    *)
(* tuple of arguments a wrapped function was called with, the value the    *)
(* function returned; a call with arguments it holds returns the kept      *)
(* value and does not run the function.  A call below returns val, the     *)
(* value, and cache, the cache of reply_for after the call.                *)
(***************************************************************************)
CacheKeyGuessOnly(g, t) == <<g>>

\* The key of a call reply_for(guess, target): both arguments.
CacheKey(g, t) == <<g, t>>

\* reply_for(g, t) through its cache c.
CachedReply(c, g, t) ==
    IF CacheKey(g, t) \in DOMAIN c
    THEN [val |-> c[CacheKey(g, t)], cache |-> c]
    ELSE [val |-> reply_for(g, t), cache |-> c @@ (CacheKey(g, t) :> reply_for(g, t))]

\* tuple(reply_for(guess, target) for guess in guesses)
RECURSIVE RepliesVia(_, _, _, _, _)
RepliesVia(c, gs, t, k, acc) ==
    IF k > Len(gs) THEN [val |-> acc, cache |-> c]
    ELSE LET r == CachedReply(c, gs[k], t)
         IN  RepliesVia(r.cache, gs, t, k + 1, Append(acc, r.val))

\* partition(guesses, targets), from target i on
RECURSIVE PartitionVia(_, _, _, _, _)
PartitionVia(c, p, gs, ts, i) ==
    IF i > Len(ts) THEN [val |-> p, cache |-> c]
    ELSE LET r == RepliesVia(c, gs, ts[i], 1, <<>>)
         IN  PartitionVia(r.cache, PartitionPut(p, r.val, ts[i]), gs, ts, i + 1)

\* can_win_bin(guess, bin)
CanWinBinVia(c, g, bin) ==
    LET r == PartitionVia(c, <<>>, <<g>>, bin, 1)
    IN  [val   |-> \A j \in 1..Len(r.val) : Len(r.val[j].bin) = 1,
         cache |-> r.cache]

\* all(can_win_bin(w, bin) for w in bin): stops at the first word that fails
RECURSIVE BinWordsVia(_, _, _)
BinWordsVia(c, bin, k) ==
    IF k > Len(bin) THEN [val |-> TRUE, cache |-> c]
    ELSE LET r == CanWinBinVia(c, bin[k], bin)
         IN  IF r.val THEN BinWordsVia(r.cache, bin, k + 1)
             ELSE [val |-> FALSE, cache |-> r.cache]

\* all(len(bin) < 2 or ... for bin in ...): stops at the first bin that fails
RECURSIVE AllBinsVia(_, _, _)
AllBinsVia(c, p, j) ==
    IF j > Len(p) THEN [val |-> TRUE, cache |-> c]
    ELSE IF Len(p[j].bin) < 2 THEN AllBinsVia(c, p, j + 1)
    ELSE LET r == BinWordsVia(c, p[j].bin, 1)
         IN  IF r.val THEN AllBinsVia(r.cache, p, j + 1)
             ELSE [val |-> FALSE, cache |-> r.cache]

\* can_win(guesses, targets)
CanWinVia(c, gs, ts) ==
    LET r == PartitionVia(c, <<>>, gs, ts, 1)
    IN  AllBinsVia(r.cache, r.val, 1)

\* fails: the words w of bin, from position k on, with not can_win_bin(w, bin)
RECURSIVE FailsVia(_, _, _, _)
FailsVia(c, bin, k, acc) ==
    IF k > Len(bin) THEN [val |-> acc, cache |-> c]
    ELSE LET r == CanWinBinVia(c, bin[k], bin)
         IN  FailsVia(r.cache, bin, k + 1,
                      IF r.val THEN acc ELSE Append(acc, bin[k]))

\* for bin in bins: if len(bin) > 2: ...
RECURSIVE LinesVia(_, _, _, _)
LinesVia(c, p, j, acc) ==
    IF j > Len(p) THEN [val |-> acc, cache |-> c]
    ELSE IF Len(p[j].bin) > 2
         THEN LET r == FailsVia(c, p[j].bin, 1, <<>>)
              IN  LinesVia(r.cache, p, j + 1,
                           Append(acc, [bin |-> p[j].bin, fails |-> r.val]))
         ELSE LinesVia(c, p, j + 1, acc)

\* report(guesses), with targets the word list
ReportVia(c, gs, ts) ==
    LET bins   == PartitionVia(c, <<>>, gs, ts, 1)
        winner == CanWinVia(bins.cache, gs, ts)
        lines  == LinesVia(winner.cache, bins.val, 1, <<>>)
    IN  [val   |-> [winner |-> winner.val, lines |-> lines.val],
         cache |-> lines.cache]

\* bin_sizes(guess) through its cache sz: the counts of the replies in the
\* order in which the replies first occur over the word list ws.
BinSizesVia(c, sz, g, ws) ==
    IF g \in DOMAIN sz THEN [val |-> sz[g], cache |-> c, sizes |-> sz]
    ELSE LET r == PartitionVia(c, <<>>, <<g>>, ws, 1)
             v == [j \in 1..Len(r.val) |-> Len(r.val[j].bin)]
         IN  [val |-> v, cache |-> r.cache, sizes |-> sz @@ (g :> v)]


(***************************************************************************)
(* SpecSession: the notebook after words is loaded: up to MaxCalls         *)
(* operations in any order, each through the memo caches, on the global    *)
(* list words.  partition, can_win, report and disjoint_words take words   *)
(* as the default of their argument, the same list object.                 *)
(***************************************************************************)
ABHOR == <<"A", "B", "H", "O", "R">>
CLEFT == <<"C", "L", "E", "F", "T">>
SWING == <<"S", "W", "I", "N", "G">>

\* words = open('wordle-small.txt').read().upper().split(): here the four
\* words of the notebook's first answer, disjoint_words(4).
Corpus == <<ABHOR, CLEFT, DUMPY, SWING>>

\* The guesses of the session: the first words of the notebook's answer.
SessionGuesses == {SubSeq(Corpus, 1, k) : k \in 0..MaxGuesses}

\* disjoint_words(4, shuffle(words))
SampleSize == 4

ShuffleWithRepeats(ws) == [1..Len(ws) -> Range(ws)]

\* random.shuffle(items): the list holds the same items after it, in any order.
ShuffleOutcomes(ws) ==
    {p \in [1..Len(ws) -> Range(ws)] :
        \A w \in Range(ws) : Cardinality({k \in 1..Len(ws) : p[k] = w})
                               = Cardinality({k \in 1..Len(ws) : ws[k] = w})}

\* An operation has returned val.
Returned(op, args, val) ==
    /\ calls' = calls + 1
    /\ out' = [op |-> op, sig |-> <<op>> \o args, val |-> val]
    /\ seen' = IF (<<op>> \o args) \in DOMAIN seen THEN seen
               ELSE seen @@ ((<<op>> \o args) :> val)

sessFrame == <<pc, replyVars, winVars, playVars, djVars, reportVars, topVars, lifeVars>>

InitSession ==
    /\ pc = "session"
    /\ words = Corpus
    /\ cache = <<>>
    /\ sizes = <<>>
    /\ calls = 0
    /\ out = [op |-> "load", sig |-> <<"load">>, val |-> Corpus]
    /\ seen = <<>>
    /\ ReplyIdle /\ WinIdle /\ PlayIdle /\ DjIdle /\ ReportIdle /\ TopIdle /\ LifeIdle

SessReplyFor ==
    /\ pc = "session" /\ calls < MaxCalls
    /\ \E g, t \in Range(words) :
          LET r == CachedReply(cache, g, t)
          IN  cache' = r.cache /\ Returned("reply_for", <<g, t>>, r.val)
    /\ UNCHANGED <<words, sizes, sessFrame>>

SessBinSizes ==
    /\ pc = "session" /\ calls < MaxCalls
    /\ \E g \in Range(words) :
          LET r == BinSizesVia(cache, sizes, g, words)
          IN  /\ cache' = r.cache
              /\ sizes' = r.sizes
              /\ Returned("bin_sizes", <<g>>, r.val)
    /\ UNCHANGED <<words, sessFrame>>

SessPartition ==
    /\ pc = "session" /\ calls < MaxCalls
    /\ \E gs \in SessionGuesses :
          LET r == PartitionVia(cache, <<>>, gs, words, 1)
          IN  cache' = r.cache /\ Returned("partition", <<gs, words>>, r.val)
    /\ UNCHANGED <<words, sizes, sessFrame>>

SessCanWin ==
    /\ pc = "session" /\ calls < MaxCalls
    /\ \E gs \in SessionGuesses :
          LET r == CanWinVia(cache, gs, words)
          IN  cache' = r.cache /\ Returned("can_win", <<gs, words>>, r.val)
    /\ UNCHANGED <<words, sizes, sessFrame>>

SessReport ==
    /\ pc = "session" /\ calls < MaxCalls
    /\ \E gs \in SessionGuesses :
          LET r == ReportVia(cache, gs, words)
          IN  cache' = r.cache /\ Returned("report", <<gs, words>>, r.val)
    /\ UNCHANGED <<words, sizes, sessFrame>>

SessDisjointWords ==
    /\ pc = "session" /\ calls < MaxCalls
    /\ \E k \in 0..MaxN :
          Returned("disjoint_words", <<k, words>>,
                   disjoint_words(k, words, DefaultLetters))
    /\ UNCHANGED <<words, cache, sizes, sessFrame>>

\* One round of the loop wordsets = [disjoint_words(4, shuffle(words)) ...]:
\* shuffle reorders the list words itself and returns it.
SessSample ==
    /\ pc = "session" /\ calls < MaxCalls
    /\ \E p \in ShuffleOutcomes(words) :
          /\ words' = p
          /\ Returned("sample", <<p>>, disjoint_words(SampleSize, p, DefaultLetters))
    /\ UNCHANGED <<cache, sizes, sessFrame>>

NextSession ==
    \/ SessReplyFor
    \/ SessBinSizes
    \/ SessPartition
    \/ SessCanWin
    \/ SessReport
    \/ SessDisjointWords
    \/ SessSample

SpecSession == InitSession /\ [][NextSession]_vars


\* C13: in any sequence of operations, a call reply_for(g, t) returns the
\* reply it returned the first time it was called with g and t, and that is
\* the reply the function computes for g and t, whether its cache held the
\* pair or not; a call can_win(guesses) returns the boolean it returned the
\* first time it was called with these guesses on this list of targets, the
\* value of can_win computed afresh.
C13_SameReplySameVerdict ==
    /\ out.op \in {"reply_for", "can_win"} => out.val = seen[out.sig]
    /\ out.op = "reply_for" => out.val = reply_for(out.sig[2], out.sig[3])
    /\ out.op = "can_win" => out.val = can_win(out.sig[2], out.sig[3])

\* reply_for has been called a second time with the same two different
\* words, which its cache held.
C13_Witness ==
    /\ pc = "session"
    /\ calls = 2
    /\ out.op = "reply_for"
    /\ out.sig[2] # out.sig[3]
    /\ DOMAIN seen = {out.sig}
    /\ CacheKey(out.sig[2], out.sig[3]) \in DOMAIN cache

\* The lists a and b hold the same words, each as many times.
SameWords(a, b) ==
    /\ Len(a) = Len(b)
    /\ \A w \in Range(a) \cup Range(b) :
          Cardinality({k \in 1..Len(a) : a[k] = w})
              = Cardinality({k \in 1..Len(b) : b[k] = w})

\* C20 as stated: after any sequence of the operations the list words holds
\* the same words in the same order as right after loading.
C20_CorpusNeverMutated == pc = "session" => words = Corpus

\* C20, amended: after any sequence of the operations the list words holds
\* the words it held right after loading, each as many times; reply_for,
\* bin_sizes, partition, can_win, report and disjoint_words leave their
\* order as it is, and only a round of the sampling loop, which shuffles
\* words in place, may change it.
C20_OnlyTheShuffleReorders ==
    /\ [](pc = "session" => SameWords(words, Corpus))
    /\ [][out'.op # "sample" => words' = words]_vars

\* A round of the sampling loop has left words in another order than the
\* order of loading.
C20_Witness ==
    /\ pc = "session"
    /\ out.op = "sample"
    /\ words # Corpus
    /\ words = out.val.tuple


\* bin_sizes(guess) computed afresh over the word list ws:
\*     ctr = Counter(reply_for(guess, target) for target in ws)
\*     return list(ctr.values())
\* the counts stand in the order in which the replies first occur.
bin_sizes(g, ws) ==
    LET p == partition(<<g>>, ws)
    IN  [j \in 1..Len(p) |-> Len(p[j].bin)]

\* A round of the sampling loop has run.
Sampled == \E sig \in DOMAIN seen : sig[1] = "sample"

\* C21 as stated: at every point of any sequence of operations, the list the
\* cache of bin_sizes holds for a guess is the list bin_sizes(guess) computed
\* afresh over the current word list returns, and the reply the cache of
\* reply_for holds for a pair is the reply computed afresh.
C21_CachesNeverStale ==
    pc = "session" =>
        /\ \A g \in DOMAIN sizes : sizes[g] = bin_sizes(g, words)
        /\ \A g, t \in Range(words) :
              CacheKey(g, t) \in DOMAIN cache
                  => cache[CacheKey(g, t)] = reply_for(g, t)

\* C21, amended: the reply the cache of reply_for holds for a pair is always
\* the reply computed afresh; the list the cache of bin_sizes holds for a
\* guess always has the sizes that bin_sizes(guess) computed afresh over the
\* current word list returns, each as many times, and it is that list, in the
\* same order, as long as no round of the sampling loop has shuffled words.
C21_SizesStaleInOrderOnly ==
    pc = "session" =>
        /\ \A g, t \in Range(words) :
              CacheKey(g, t) \in DOMAIN cache
                  => cache[CacheKey(g, t)] = reply_for(g, t)
        /\ \A g \in DOMAIN sizes :
              /\ SameWords(sizes[g], bin_sizes(g, words))
              /\ ~Sampled => sizes[g] = bin_sizes(g, words)

\* After bin_sizes has cached the list of a guess, a round of the sampling
\* loop has left words in an order for which bin_sizes computed afresh
\* returns the same sizes in another order.
C21_Witness ==
    /\ pc = "session"
    /\ out.op = "sample"
    /\ \E g \in DOMAIN sizes :
          /\ sizes[g] # bin_sizes(g, words)
          /\ SameWords(sizes[g], bin_sizes(g, words))


(***************************************************************************)
(* SpecBin: one call can_win_bin(guess, bin), on the bins of more than 2   *)
(* words that the notebook's reports show, in any order and in part, with  *)
(* any of their words as the guess.                                        *)
(***************************************************************************)
BELLE == Lexicon[1]
BEVEL == Lexicon[2]
BEZEL == Lexicon[3]
JAUNT == <<"J", "A", "U", "N", "T">>
TAUNT == <<"T", "A", "U", "N", "T">>
VAUNT == <<"V", "A", "U", "N", "T">>

\* ['BELLE', 'BEVEL', 'BEZEL'], ['JAUNT', 'TAUNT', 'VAUNT'] and
\* ['STATE', 'STAKE', 'SKATE'] of the reports.
BinBelle == <<BELLE, BEVEL, BEZEL>>
BinJaunt == <<JAUNT, TAUNT, VAUNT>>
BinState == <<Lexicon[4], Lexicon[5], Lexicon[6]>>

ReportedBins == {BinBelle, BinJaunt, BinState}

InitBin ==
    /\ pc = "can_win_bin"
    /\ \E B \in ReportedBins :
          /\ targets \in {b \in SeqUpTo(Range(B), Len(B)) : Distinct(b)}
          /\ guess \in UNION {Range(C) : C \in ReportedBins}
    /\ target = NoWord /\ reply = <<>>
    /\ guesses = <<>> /\ idx = 0 /\ part = <<>> /\ verdict = FALSE
    /\ PlayIdle /\ DjIdle /\ OtherIdle

\* return all(len(bin5) == 1 for bin5 in partition([guess], bin).values())
CanWinBin ==
    /\ pc = "can_win_bin"
    /\ part' = partition(<<guess>>, targets)
    /\ verdict' = can_win_bin(guess, targets)
    /\ pc' = "binned"
    /\ UNCHANGED <<guess, target, reply, guesses, targets, idx, playVars,
                   djVars, otherVars>>

NextBin == CanWinBin

SpecBin == InitBin /\ [][NextBin]_vars

\* The words u and v lie in the same bin of the partition p.
InOneBin(p, u, v) ==
    \E j \in 1..Len(p) : u \in Range(p[j].bin) /\ v \in Range(p[j].bin)

\* C24: can_win_bin gives the diagnoses of the notebook's reports: in the
\* bin [BELLE, BEVEL, BEZEL] the guess BELLE fails, leaving BEVEL and BEZEL
\* in one bin, and the guesses BEVEL and BEZEL pass, each leaving only bins
\* of one word; in the bin [JAUNT, TAUNT, VAUNT] every word of the bin fails;
\* in the bin [STATE, STAKE, SKATE] every word of the bin passes.
C24_ReportedDiagnoses ==
    pc = "binned" =>
        /\ (targets = BinBelle /\ guess = BELLE) =>
              ~verdict /\ InOneBin(part, BEVEL, BEZEL)
        /\ (targets = BinBelle /\ guess \in {BEVEL, BEZEL}) =>
              verdict /\ \A j \in 1..Len(part) : Len(part[j].bin) = 1
        /\ (targets = BinJaunt /\ guess \in Range(BinJaunt)) => ~verdict
        /\ (targets = BinState /\ guess \in Range(BinState)) => verdict

\* can_win_bin has returned false for the guess BELLE in the bin
\* [BELLE, BEVEL, BEZEL].
C24_Witness ==
    /\ pc = "binned"
    /\ targets = BinBelle
    /\ guess = BELLE
    /\ ~verdict


(***************************************************************************)
(* SpecDisjointFair: SpecDisjoint with the running call always taking its  *)
(* next step, as the interpreter does.                                     *)
(***************************************************************************)
SpecDisjointFair == SpecDisjoint /\ WF_vars(NextDisjoint)

\* C25: disjoint_words(n, pool, letters) terminates, also when n is larger
\* than any solution and when n is negative: the outermost call returns.
\* A call at depth d of the recursion has 5 * (d - 1) letters fewer than the
\* outermost call, so the depth never exceeds len(letters) / 5 + 1.
C25_TerminatesWithinDepth ==
    /\ [](\A d \in 1..Len(stack) :
            Cardinality(stack[d].letters)
                = Cardinality(letters) - DistinctLetters * (d - 1))
    /\ [](DistinctLetters * (Len(stack) - 1) <= Cardinality(letters))
    /\ <>(pc = "done")

\* A call with negative n stands at the largest depth its letters allow.
C25_Witness ==
    /\ n < 0
    /\ Len(stack) >= 2
    /\ DistinctLetters * Len(stack) > Cardinality(letters)


\* C26: the search is complete: a call returns None only if its pool holds no
\* n words of 5 distinct letters each, within its letters and pairwise
\* disjoint; whenever the pool holds such words, in whatever order, the call
\* returns a tuple, and the tuple is n such words.
C26_SearchIsComplete ==
    pc \in {"returned", "done"} =>
        /\ ret.none => ~SolutionExists(ret.n, pool, ret.letters)
        /\ SolutionExists(ret.n, pool, ret.letters) =>
              /\ ~ret.none
              /\ Len(ret.tuple) = ret.n
              /\ ValidPositions([k \in 1..ret.n |-> PoolPos(ret.tuple[k])],
                                ret.letters)

\* The outermost call has returned a tuple of at least two words without
\* the first candidate of the pool, which it tried and gave up.
C26_Witness ==
    /\ pc = "done"
    /\ ~ret.none
    /\ Len(ret.tuple) >= 2
    /\ \E k \in 1..Len(pool) :
          /\ IsCandidate(pool[k], letters)
          /\ pool[k] \notin Range(ret.tuple)
          /\ \A j \in 1..Len(ret.tuple) : k < PoolPos(ret.tuple[j])


\* 'GGGGG'
AllHits == [i \in 1..WordLen |-> Green]

\* C27: for words of 5 letters, reply_for(guess, target) is five Hits
\* exactly when guess == target; hence in partition([w], bin), with w a word
\* of a bin of different words, w lies alone in the bin of the five Hits:
\* here for the bin [target, guess].
C27_AllHitsIffSameWord ==
    pc = "replied" =>
        /\ reply = AllHits <=> guess = target
        /\ guess # target =>
              \E P \in {partition(<<guess>>, <<target, guess>>)} :
                  \E j \in 1..Len(P) :
                      P[j].key = <<AllHits>> /\ P[j].bin = <<guess>>

\* reply_for has answered five Hits to a guess of several letters.
C27_Witness ==
    /\ pc = "replied"
    /\ reply = AllHits
    /\ guess = target
    /\ Cardinality(Range(guess)) >= 2

(***************************************************************************)
(* SpecGuesses: the calls can_win(guesses, targets) of SpecWin over lists   *)
(* of different targets, or over one word given twice.                      *)
(***************************************************************************)
InitGuesses ==
    /\ pc = "partition"
    /\ guesses \in GuessSeqs
    /\ targets \in {ts \in SeqUpTo(LexiconWords, MaxTargets) :
                        Distinct(ts) \/ Len(ts) = 2}
    /\ idx = 1
    /\ part = <<>>
    /\ verdict = FALSE
    /\ ReplyIdle /\ PlayIdle /\ DjIdle /\ OtherIdle

SpecGuesses == InitGuesses /\ [][NextWin]_vars

\* The permutations of 1..k, and the list gs read through one of them.
Perms(k) == {f \in [1..k -> 1..k] : \A i, j \in 1..k : f[i] = f[j] => i = j}

Permuted(gs, f) == [i \in 1..Len(gs) |-> gs[f[i]]]

\* C28: the order of the guesses changes the keys only: for every
\* permutation p of guesses, partition(p(guesses), targets) has the bins of
\* partition(guesses, targets), the same lists of words in the same order,
\* each under its key permuted by p, and can_win(p(guesses), targets) is
\* can_win(guesses, targets).
C28_GuessOrderChangesOnlyKeys ==
    pc = "done" =>
        \A f \in Perms(Len(guesses)) :
            \E Q \in {partition(Permuted(guesses, f), targets)} :
                /\ Len(Q) = Len(part)
                /\ \A j \in 1..Len(Q) :
                      /\ Q[j].bin = part[j].bin
                      /\ Len(part[j].key) = Len(guesses)
                      /\ Q[j].key = Permuted(part[j].key, f)
                /\ AllBinsWin(Q) = verdict

\* can_win has answered for two guesses whose replies differ, over targets
\* that share a bin.
C28_Witness ==
    /\ pc = "done"
    /\ Len(guesses) >= 2
    /\ Len(part) >= 2
    /\ part[1].key[1] # part[1].key[2]
    /\ \E j \in 1..Len(part) : Len(part[j].bin) >= 2

(***************************************************************************)
(* SpecMore: the calls can_win(guesses, targets) of SpecWin over lists of   *)
(* different targets.                                                       *)
(***************************************************************************)
InitMore ==
    /\ pc = "partition"
    /\ guesses \in GuessSeqs
    /\ targets \in {ts \in SeqUpTo(LexiconWords, MaxTargets) : Distinct(ts)}
    /\ idx = 1
    /\ part = <<>>
    /\ verdict = FALSE
    /\ ReplyIdle /\ PlayIdle /\ DjIdle /\ OtherIdle

SpecMore == InitMore /\ [][NextWin]_vars

\* The list gs with the guess g inserted after its first k guesses.
InsertAt(gs, k, g) == SubSeq(gs, 1, k) \o <<g>> \o SubSeq(gs, k + 1, Len(gs))

\* C29: can_win is monotone in the guesses: when can_win(guesses, targets)
\* is true for a list of different targets, it is still true with any
\* further guess inserted at any position of guesses.
C29_MoreGuessesStillWin ==
    (pc = "done" /\ verdict /\ Distinct(targets)) =>
        \A g \in GuessWords : \A k \in 0..Len(guesses) :
            can_win(InsertAt(guesses, k, g), targets)

\* can_win has answered True over different targets that share a bin, and
\* some further guess splits a bin.
C29_Witness ==
    /\ pc = "done"
    /\ verdict
    /\ Distinct(targets)
    /\ Len(guesses) >= 1
    /\ \E j \in 1..Len(part) : Len(part[j].bin) >= 2
    /\ \E g \in GuessWords :
           Len(partition(InsertAt(guesses, 0, g), targets)) > Len(part)


(***************************************************************************)
(* The Game of Life: a world is the set of its live cells, a cell is a     *)
(* pair <<x, y>> of integers.                                              *)
(***************************************************************************)
LifeW == 4
LifeH == 2
MaxGen == 3

\* for dx in (-1, 0, 1) for dy in (-1, 0, 1)
AllOffsets ==
    << <<-1, -1>>, <<-1, 0>>, <<-1, 1>>,
       << 0, -1>>, << 0, 0>>, << 0, 1>>,
       << 1, -1>>, << 1, 0>>, << 1, 1>> >>

\* if not (dx == 0 == dy)
NotBothZero(d) == ~(d[1] = 0 /\ 0 = d[2])

Offsets == SelectSeq(AllOffsets, NotBothZero)

\* [(x + dx, y + dy) for dx in (-1, 0, 1) for dy in (-1, 0, 1) if ...]
neighborsWithSelf(cell) ==
    [i \in 1..Len(AllOffsets) |->
        <<cell[1] + AllOffsets[i][1], cell[2] + AllOffsets[i][2]>>]

neighbors(cell) ==
    [i \in 1..Len(Offsets) |->
        <<cell[1] + Offsets[i][1], cell[2] + Offsets[i][2]>>]

\* xy for cell in world for xy in neighbors(cell): an element of the
\* stream is an xy with the cell and the position in neighbors(cell) it
\* comes from.
Stream(w) ==
    {<<cell, i, neighbors(cell)[i]>> : cell \in w, i \in 1..Len(Offsets)}

\* Counter(stream): the map from each xy of the stream to the number of
\* times the stream holds it.
CounterOf(stream) ==
    [xy \in {p[3] : p \in stream} |-> Cardinality({p \in stream : p[3] = xy})]

\* Counter(xy for cell in world for xy in neighbors(cell)), the stream
\* being run through once.
neighbor_counts(w) ==
    CHOOSE counts \in {CounterOf(stream) : stream \in {Stream(w)}} : TRUE

\* {cell for cell, count in counts.items() if count == 3}
BornCells(counts, w) == {cell \in DOMAIN counts : counts[cell] = 3}

\* {cell for cell, count in counts.items()
\*  if count == 3 or (count == 2 and cell in world)}
LiveCells(counts, w) ==
    {cell \in DOMAIN counts :
        counts[cell] = 3 \/ (counts[cell] = 2 /\ cell \in w)}

\* {cell for cell, count in neighbor_counts(world).items() if ...}, the
\* Counter being built once.
next_generation(w) ==
    UNION {LiveCells(counts, w) : counts \in {neighbor_counts(w)}}

\* world = {(3, 1), (1, 2), (1, 3), (2, 3)}
ExampleWorld == {<<3, 1>>, <<1, 2>>, <<1, 3>>, <<2, 3>>}

\* The worlds of the model: the sets of cells of a LifeW by LifeH box, and
\* the notebook's world.
Box == (1..LifeW) \X (1..LifeH)

Worlds == (SUBSET Box) \cup {ExampleWorld}

(***************************************************************************)
(* SpecGen: one call next_generation(world).                               *)
(***************************************************************************)
InitGen ==
    /\ pc = "next_generation"
    /\ given \in Worlds
    /\ world = given
    /\ gens = 0 /\ gen = 0 /\ yielded = <<>>
    /\ nextWorld = {} /\ tally = <<>> /\ kataWorld = {}
    /\ ReplyIdle /\ WinIdle /\ PlayIdle /\ DjIdle
    /\ ReportIdle /\ TopIdle /\ SessIdle

NextGeneration ==
    /\ pc = "next_generation"
    /\ tally' = neighbor_counts(world)
    /\ nextWorld' = next_generation(world)
    /\ pc' = "generated"
    /\ UNCHANGED <<given, gens, gen, world, yielded, kataWorld>>
    /\ UNCHANGED <<replyVars, winVars, playVars, djVars,
                   reportVars, topVars, sessVars>>

SpecGen == InitGen /\ [][NextGeneration]_vars

Abs(k) == IF k < 0 THEN 0 - k ELSE k

\* The live cells of w among the 8 cells adjacent to c.
LiveNeighbours(c, w) ==
    Cardinality({d \in w : d # c /\ Abs(d[1] - c[1]) <= 1 /\ Abs(d[2] - c[2]) <= 1})

\* The cells within two steps of the box or of the notebook's world.
Surroundings == (-1..(LifeW + 2)) \X (-1..(LifeH + 2)) \cup (-1..5) \X (-1..5)

\* C22: a cell c is in next_generation(world) if and only if c is live in
\* world with 2 or 3 live neighbours among its 8 adjacent cells, or c is
\* empty in world with exactly 3 live neighbours; every other cell, a live
\* cell without live neighbour included, is empty in the next generation.
C22_RuleOfLife ==
    pc = "generated" =>
        /\ \A c \in Surroundings \cup nextWorld :
              c \in nextWorld <=>
                  \/ c \in given /\ LiveNeighbours(c, given) \in {2, 3}
                  \/ c \notin given /\ LiveNeighbours(c, given) = 3
        /\ \A c \in given : LiveNeighbours(c, given) = 0 => c \notin nextWorld

\* next_generation has returned a world in which a cell was born, a cell
\* survived and a cell without live neighbour died.
C22_Witness ==
    /\ pc = "generated"
    /\ \E c \in nextWorld : c \notin given
    /\ \E c \in nextWorld : c \in given
    /\ \E c \in given : LiveNeighbours(c, given) = 0 /\ c \notin nextWorld


(***************************************************************************)
(* SpecLife: the generator life(world, n), driven to its end as by         *)
(* list(life(world, 4)): one action per call of next() on it.              *)
(***************************************************************************)
MaxLive == 4

\* list(life(world, 4))
ExampleGens == 4

SeedWorlds == {w \in Worlds : Cardinality(w) <= MaxLive}

InitLife ==
    /\ pc = "life"
    /\ \/ given \in SeedWorlds /\ gens \in 0..MaxGen
       \/ given = ExampleWorld /\ gens = ExampleGens
    /\ world = given
    /\ gen = 0 /\ yielded = <<>>
    /\ nextWorld = {} /\ tally = <<>> /\ kataWorld = {}
    /\ ReplyIdle /\ WinIdle /\ PlayIdle /\ DjIdle
    /\ ReportIdle /\ TopIdle /\ SessIdle

lifeFrame == <<replyVars, winVars, playVars, djVars, reportVars, topVars,
               sessVars, given, gens, nextWorld, tally, kataWorld>>

\* The first next(): for g in range(n) starts with g = 0; yield world.
LifeStart ==
    /\ pc = "life"
    /\ gens > 0
    /\ gen' = 0
    /\ yielded' = Append(yielded, world)
    /\ pc' = "suspended"
    /\ UNCHANGED <<world, lifeFrame>>

\* The first next() when range(n) is empty: the generator returns.
LifeStartNone ==
    /\ pc = "life"
    /\ gens <= 0
    /\ pc' = "stopped"
    /\ UNCHANGED <<gen, world, yielded, lifeFrame>>

\* A later next(): the generator resumes after its yield without computing
\* the next generation.
LifeResumeSameWorld ==
    /\ pc = "suspended"
    /\ gen + 1 < gens
    /\ world' = world
    /\ gen' = gen + 1
    /\ yielded' = Append(yielded, world')
    /\ UNCHANGED <<pc, lifeFrame>>

\* A later next(): world = next_generation(world); the loop goes on with
\* the next g; yield world.
LifeResume ==
    /\ pc = "suspended"
    /\ gen + 1 < gens
    /\ world' = next_generation(world)
    /\ gen' = gen + 1
    /\ yielded' = Append(yielded, world')
    /\ UNCHANGED <<pc, lifeFrame>>

\* The last next(): world = next_generation(world); range(n) is exhausted
\* and the generator returns.
LifeFinish ==
    /\ pc = "suspended"
    /\ gen + 1 >= gens
    /\ world' = next_generation(world)
    /\ pc' = "stopped"
    /\ UNCHANGED <<gen, yielded, lifeFrame>>

NextLife == LifeStart \/ LifeStartNone \/ LifeResume \/ LifeFinish

SpecLife == InitLife /\ [][NextLife]_vars

\* list(...) calls next() until the generator stops.
SpecLifeFair == SpecLife /\ WF_vars(NextLife)

\* C23: life(world, n) yields exactly n worlds and then stops: the first is
\* the given world, each later one is next_generation of the world yielded
\* just before it; for the world {(3,1),(1,2),(1,3),(2,3)} and n = 4 the
\* worlds are that world, {(1,2),(1,3),(2,3)}, {(1,2),(1,3),(2,2),(2,3)}
\* and {(1,2),(1,3),(2,2),(2,3)} again, a fixed point.
C23_LifeYieldsGenerations ==
    /\ <>(pc = "stopped")
    /\ [](pc = "stopped" => Len(yielded) = gens)
    /\ [](/\ Len(yielded) <= gens
          /\ yielded # <<>> => yielded[1] = given
          /\ \A k \in 2..Len(yielded) :
                yielded[k] = next_generation(yielded[k - 1]))
    /\ []((pc = "stopped" /\ given = ExampleWorld /\ gens = ExampleGens) =>
              /\ yielded = << {<<3, 1>>, <<1, 2>>, <<1, 3>>, <<2, 3>>},
                              {<<1, 2>>, <<1, 3>>, <<2, 3>>},
                              {<<1, 2>>, <<1, 3>>, <<2, 2>>, <<2, 3>>},
                              {<<1, 2>>, <<1, 3>>, <<2, 2>>, <<2, 3>>} >>
              /\ next_generation(yielded[4]) = yielded[4])

\* life has stopped after yielding the 4 worlds of the notebook's example.
C23_Witness ==
    /\ pc = "stopped"
    /\ given = ExampleWorld
    /\ gens = ExampleGens
    /\ Len(yielded) = ExampleGens
    /\ yielded[1] # yielded[2]


(***************************************************************************)
(* next_generation without conditional: set(filter(live, counts)).         *)
(***************************************************************************)
\* counts[cell]: the count of a key of the Counter, 0 for any other cell
\* (a Counter stores nothing when it is read).
CounterGet(counts, cell) ==
    IF cell \in DOMAIN counts THEN counts[cell] ELSE 0

\* def live(cell): return counts[cell] == 3 or counts[cell] == 2
liveAnyTwo(counts, w, cell) == CounterGet(counts, cell) \in {2, 3}

\* def live(cell): return counts[cell] == 3 or (counts[cell] == 2 and cell in world)
live(counts, w, cell) ==
    CounterGet(counts, cell) = 3 \/ (CounterGet(counts, cell) = 2 /\ cell \in w)

\* set(filter(live, counts)): the keys of counts for which live is true.
FilterLive(counts, w) == {cell \in DOMAIN counts : live(counts, w, cell)}

\* counts = neighbor_counts(world); return set(filter(live, counts))
next_generation_filter(w) ==
    UNION {FilterLive(counts, w) : counts \in {neighbor_counts(w)}}

(***************************************************************************)
(* SpecKata: both versions of next_generation called on one world.         *)
(***************************************************************************)
InitKata ==
    /\ pc = "kata"
    /\ given \in Worlds
    /\ world = given
    /\ gens = 0 /\ gen = 0 /\ yielded = <<>>
    /\ nextWorld = {} /\ tally = <<>> /\ kataWorld = {}
    /\ ReplyIdle /\ WinIdle /\ PlayIdle /\ DjIdle
    /\ ReportIdle /\ TopIdle /\ SessIdle

Kata ==
    /\ pc = "kata"
    /\ nextWorld' = next_generation(world)
    /\ tally' = neighbor_counts(world)
    /\ kataWorld' = next_generation_filter(world)
    /\ pc' = "filtered"
    /\ UNCHANGED <<given, gens, gen, world, yielded>>
    /\ UNCHANGED <<replyVars, winVars, playVars, djVars,
                   reportVars, topVars, sessVars>>

SpecKata == InitKata /\ [][Kata]_vars

\* C30: the version of next_generation without conditional returns the
\* same set of live cells as the set comprehension, and reading
\* counts[cell] in it adds no cell: the result holds only cells that the
\* Counter counted, each of them adjacent to a live cell.
C30_FilterVersionSameWorld ==
    pc = "filtered" =>
        /\ kataWorld = nextWorld
        /\ kataWorld \subseteq DOMAIN tally
        /\ \A c \in kataWorld : LiveNeighbours(c, given) > 0

\* Both versions have returned a world in which a cell was born and a cell
\* survived, out of a Counter that holds cells left empty.
C30_Witness ==
    /\ pc = "filtered"
    /\ \E c \in kataWorld : c \notin given
    /\ \E c \in kataWorld : c \in given
    /\ \E c \in DOMAIN tally : c \notin kataWorld

====
